---- MODULE Spec2Model ----
(***************************************************************************)
(* Sudoku web app (hamidihabib/sudoku): the puzzle engine (fillBoard,       *)
(* isValid, removeNumbers, findDuplicates, isBoardSolved) and the Home      *)
(* component's state and event handlers, in the page variants of the        *)
(* repository.                                                              *)
(*                                                                          *)
(* Grids are JavaScript arrays of row arrays.  Row arrays live in `heap`    *)
(* (a sequence of rows; a reference is an index into it) and a grid is a    *)
(* function from the row index 0..8 to a reference, so that two grids may   *)
(* share rows and an in-place write is seen through every alias.            *)
(***************************************************************************)
EXTENDS Integers, Sequences, FiniteSets, TLC

\* ------------------------------------------------------------------------
\* Bounds of the model
\* ------------------------------------------------------------------------

\* Math.random streams considered: one per seed in 0..MaxSeed.
MaxSeed == 1

\* Statements of one generateSudoku call that Run follows.
StepBudget == 4096

Seeds == 0..MaxSeed

\* ------------------------------------------------------------------------
\* Grids
\* ------------------------------------------------------------------------

Idx == 0..8

Digits == 1..9

Cells == Idx \X Idx

Difficulties == {"easy", "medium", "hard"}

\* const difficulties: Record<Difficulty, number>
difficulties == [easy |-> 40, medium |-> 32, hard |-> 24]

ZeroRow == [c \in Idx |-> 0]

\* F applied to the value of v, which is worked out once.
With(v, F(_)) == CHOOSE r \in {F(x) : x \in {v}} : TRUE

Min(S) == CHOOSE x \in S : \A y \in S : x <= y

Max(S) == CHOOSE x \in S : \A y \in S : y <= x

ColsOf(S, row) == {cell[2] : cell \in {x \in S : x[1] = row}}

\* The first and the last cell of a non-empty set of cells in row-major
\* order.
FirstOf(S) ==
    With(Min({cell[1] : cell \in S}),
         LAMBDA row : <<row, Min(ColsOf(S, row))>>)

LastOf(S) ==
    With(Max({cell[1] : cell \in S}),
         LAMBDA row : <<row, Max(ColsOf(S, row))>>)

\* The contents of grid g (a matrix of numbers) read through the heap h.
View(h, g) == [r \in Idx |-> h[g[r]]]

\* board[row][col] = v, in place.
Store(h, g, row, col, v) == [h EXCEPT ![g[row]][col] = v]

\* Array.from({ length: 9 }, () => Array(9).fill(0)): nine fresh zero rows
\* appended to h; the grid's references are the new indices.
generateEmptyBoard(h) ==
    [heap |-> h \o [i \in 1..9 |-> ZeroRow],
     grid |-> [r \in Idx |-> Len(h) + r + 1]]

\* structuredClone(g): nine fresh rows holding copies of g's rows.
structuredClone(h, g) ==
    [heap |-> h \o [i \in 1..9 |-> h[g[i - 1]]],
     grid |-> [r \in Idx |-> Len(h) + r + 1]]

\* ------------------------------------------------------------------------
\* Math.random
\* ------------------------------------------------------------------------

\* Math.random() is a deterministic generator over a hidden state.  The
\* model's generator is a linear congruential one; a seed selects the stream.
NextRandom(x) == (x * 75 + 74) % 65537

\* Math.floor(Math.random() * n), for the generator state x just drawn.
RandomBelow(x, n) == (x * n) \div 65537

SeedState(seed) == NextRandom(NextRandom(seed * 7919 + 1))

\* ------------------------------------------------------------------------
\* shuffle (Fisher-Yates)
\* ------------------------------------------------------------------------

\* [array[i], array[j]] = [array[j], array[i]] for the positions p and q of
\* a sequence (the sequence is worked out once, then both elements are set).
Swap(array, p, q) ==
    CHOOSE swapped \in {[a EXCEPT ![p] = a[q], ![q] = a[p]] : a \in {array}} : TRUE

RECURSIVE ShuffleFrom(_, _, _)
\* The loop body for index i (0-based) and the iterations after it;
\* array is a sequence, so array[i] of the code is array[i + 1] here.
ShuffleFrom(array, i, x) ==
    IF i > 0
    THEN LET x1 == NextRandom(x)
             j == RandomBelow(x1, i + 1)
         IN  ShuffleFrom(Swap(array, i + 1, j + 1), i - 1, x1)
    ELSE [array |-> array, rng |-> x]

shuffle(array, x) == ShuffleFrom(array, Len(array) - 1, x)

\* ------------------------------------------------------------------------
\* isValid
\* ------------------------------------------------------------------------

\* isValid with the box test left out.
IsValidNoBox(m, row, col, num) ==
    \A i \in Idx : ~(m[row][i] = num \/ m[i][col] = num)

\* isValid looking only at the cells other than (row, col).
IsValidElsewhere(m, row, col, num) ==
    \A i \in Idx :
        LET boxRow == 3 * (row \div 3) + (i \div 3)
            boxCol == 3 * (col \div 3) + (i % 3)
        IN  /\ ~(i # col /\ m[row][i] = num)
            /\ ~(i # row /\ m[i][col] = num)
            /\ ~(<<boxRow, boxCol>> # <<row, col>> /\ m[boxRow][boxCol] = num)

\* isValid with the column test left out.
IsValidNoColumn(m, row, col, num) ==
    \A i \in Idx :
        LET boxRow == 3 * (row \div 3) + (i \div 3)
            boxCol == 3 * (col \div 3) + (i % 3)
        IN  /\ ~(m[row][i] = num)
            /\ ~(m[boxRow][boxCol] = num)

\* b is a matrix of numbers.  The loop returns false at the first i whose
\* row cell, column cell or box cell holds num, and true after i = 8.
isValid(m, row, col, num) ==
    \A i \in Idx :
        LET boxRow == 3 * (row \div 3) + (i \div 3)
            boxCol == 3 * (col \div 3) + (i % 3)
        IN  /\ ~(m[row][i] = num \/ m[i][col] = num)
            /\ ~(m[boxRow][boxCol] = num)

\* ------------------------------------------------------------------------
\* Numbers and their text
\* ------------------------------------------------------------------------

\* The decimal text of a number 0..9 (num.toString(), JSON.stringify).
DigitText == [v \in 0..9 |-> CASE v = 0 -> "0" [] v = 1 -> "1" [] v = 2 -> "2"
                               [] v = 3 -> "3" [] v = 4 -> "4" [] v = 5 -> "5"
                               [] v = 6 -> "6" [] v = 7 -> "7" [] v = 8 -> "8"
                               [] v = 9 -> "9"]

\* parseInt of a text of at most one character (the inputs have maxLength 1):
\* a digit gives its number, anything else (the empty text, a letter) NaN.
\* A number is [isNaN |-> FALSE, value |-> n]; NaN is [isNaN |-> TRUE].
parseInt(text) ==
    IF \E v \in 0..9 : DigitText[v] = text
    THEN [isNaN |-> FALSE, value |-> CHOOSE v \in 0..9 : DigitText[v] = text]
    ELSE [isNaN |-> TRUE]

\* JSON.parse(JSON.stringify(g)): the grid is written as the text of its
\* numbers, row by row, and read back into nine fresh rows.
jsonClone(h, g) ==
    LET text == [r \in Idx |-> [c \in Idx |-> DigitText[h[g[r]][c]]]]
    IN  [heap |-> h \o [i \in 1..9 |-> [c \in Idx |-> parseInt(text[i - 1][c]).value]],
         grid |-> [r \in Idx |-> Len(h) + r + 1]]

\* ------------------------------------------------------------------------
\* State
\* ------------------------------------------------------------------------

VARIABLES
    variant,        \* which page of the repository is running
    heap,           \* the row arrays
    difficulty,     \* useState<Difficulty>("easy")
    board,          \* useState: the grid the player edits
    originalBoard,  \* useState: the puzzle as generated
    solutionBoard,  \* useState: the solution
    showSolution,   \* useState(false)
    winMessage,     \* useState("")
    selectedCell,   \* useState<[number, number] | null>(null)
    activeHelp,     \* useState(false)
    pc,             \* where the running generateSudoku call is
    rng,            \* Math.random's state
    fullBoard,      \* generateSudoku's local fullBoard
    puzzle,         \* generateSudoku's local puzzle
    stack,          \* the active fillBoard calls that are inside their loop
    ret,            \* the value the last finished fillBoard call returned
    attempts,       \* removeNumbers' local counter
    argBoard,       \* the grid a single call of an engine function is given
    returned        \* what that call returned, for every other argument

uiVars == <<variant, difficulty, board, originalBoard, solutionBoard,
            showSolution, winMessage, selectedCell, activeHelp>>

genVars == <<pc, rng, fullBoard, puzzle, stack, ret, attempts>>

checkVars == <<argBoard, returned>>

vars == <<uiVars, heap, genVars, checkVars>>

\* The pages: src/app/page.tsx ("page"); src/app/text.tsx, part_000 and the
\* first page of part_001, whose game logic is the same ("text"); the second
\* page of part_001 ("plain").
Variants == {"page", "text", "plain"}

\* Pages that run generateSudoku from useEffect on mount.
MountVariants == {"text"}

\* Pages with cell selection and Reveal Selected Cell.
SelectVariants == {"text", "plain"}

\* Pages with the help toggle.
HelpVariants == {"text"}

\* null (no selected cell): a tuple that is no cell.
Null == <<>>

NoGrid == [r \in Idx |-> 0]

WinText == "Congratulations! You've solved the Sudoku!"

\* ------------------------------------------------------------------------
\* Heap housekeeping
\* ------------------------------------------------------------------------

\* Rows no state grid refers to are garbage.  Compact drops them and
\* renumbers the rows the three state grids refer to: the 27 references of
\* board, originalBoard and solutionBoard are listed in that order, and a row
\* gets the position of its first use in the list as its reference, so that
\* states differing only in the numbering of references are one state.  The
\* positions that are no first use hold an unused zero row.
Refs(g) == <<g[0], g[1], g[2], g[3], g[4], g[5], g[6], g[7], g[8]>>

RootRefs(b, o, s) == Refs(b) \o Refs(o) \o Refs(s)

FirstUse(roots, i) == CHOOSE j \in 1..i : roots[j] = roots[i]

CompactRoots(h, roots) ==
    [heap |-> [i \in 1..27 |-> IF FirstUse(roots, i) = i THEN h[roots[i]]
                               ELSE ZeroRow],
     board |-> [r \in Idx |-> FirstUse(roots, r + 1)],
     originalBoard |-> [r \in Idx |-> FirstUse(roots, r + 10)],
     solutionBoard |-> [r \in Idx |-> FirstUse(roots, r + 19)]]

Compact(h, b, o, s) ==
    With(RootRefs(b, o, s), LAMBDA roots : CompactRoots(h, roots))

\* The heap and the three state grids become those of c.
SetGrids(c) ==
    \E n \in {c} :
        /\ heap' = n.heap
        /\ board' = n.board
        /\ originalBoard' = n.originalBoard
        /\ solutionBoard' = n.solutionBoard

\* ------------------------------------------------------------------------
\* The Home component's initial state
\* ------------------------------------------------------------------------

\* useState(() => generateEmptyBoard()) three times: 27 fresh zero rows.
InitialHeap == [i \in 1..27 |-> ZeroRow]

InitHome ==
    /\ variant \in Variants
    /\ heap = InitialHeap
    /\ difficulty = "easy"
    /\ board = [r \in Idx |-> r + 1]
    /\ originalBoard = [r \in Idx |-> r + 10]
    /\ solutionBoard = [r \in Idx |-> r + 19]
    /\ showSolution = FALSE
    /\ winMessage = ""
    /\ selectedCell = Null
    /\ activeHelp = FALSE

InitGen ==
    /\ pc = IF variant \in MountVariants THEN "mount" ELSE "idle"
    /\ rng = 0
    /\ fullBoard = NoGrid
    /\ puzzle = NoGrid
    /\ stack = <<>>
    /\ ret = TRUE
    /\ attempts = 0

\* No single call is being looked at.
NotCalled == [fn |-> "none"]

ZeroGrid == [r \in Idx |-> ZeroRow]

InitArgs ==
    /\ argBoard = ZeroGrid
    /\ returned = NotCalled

\* ------------------------------------------------------------------------
\* generateSudoku, statement by statement
\* ------------------------------------------------------------------------

\* The running generateSudoku call is a record e of its locals (fullBoard,
\* puzzle, removeNumbers' attempts), the fillBoard calls on the call stack
\* (stack: one frame per call that is inside its candidate loop, with its
\* cell, its shuffled numbers and the index k of the current candidate), the
\* value ret of the last return, the heap, Math.random's state and the
\* position pc:
\*   "call"    a fillBoard call has just been entered
\*   "loop"    the top call is at the head of `for (const num of numbers)`
\*   "ret"     a fillBoard call has just returned ret
\*   "filled"  fillBoard(fullBoard) has returned to generateSudoku
\*   "remove"  at the head of removeNumbers' while loop
Engine == [pc |-> pc, heap |-> heap, rng |-> rng, fullBoard |-> fullBoard,
           puzzle |-> puzzle, stack |-> stack, ret |-> ret,
           attempts |-> attempts]

\* The empty cells of matrix m, and the first of them in row-major order
\* (the cell at which fillBoard's two for loops stop).
EmptyCells(m) == {cell \in Cells : m[cell[1]][cell[2]] = 0}

FirstEmpty(m) == FirstOf(EmptyCells(m))

TopOf(e) == e.stack[Len(e.stack)]

PopOf(e) == SubSeq(e.stack, 1, Len(e.stack) - 1)

\* const fullBoard = generateEmptyBoard(); fillBoard(fullBoard), with
\* Math.random in state x.
genStart(e, x) ==
    LET b == generateEmptyBoard(e.heap)
    IN  [e EXCEPT !.heap = b.heap, !.fullBoard = b.grid, !.rng = x,
                  !.pc = "call"]

\* A fillBoard call is entered: it scans for the first empty cell; with none
\* it returns true, otherwise it shuffles the candidates and enters its loop.
fillCall(e) ==
    LET m == View(e.heap, e.fullBoard)
    IN  IF EmptyCells(m) = {}
        THEN [e EXCEPT !.ret = TRUE, !.pc = "ret"]
        ELSE LET cell == FirstEmpty(m)
                 s == shuffle(<<1, 2, 3, 4, 5, 6, 7, 8, 9>>, e.rng)
             IN  [e EXCEPT !.stack = Append(e.stack,
                                [row |-> cell[1], col |-> cell[2],
                                 numbers |-> s.array, k |-> 1]),
                           !.rng = s.rng,
                           !.pc = "loop"]

\* fillTry without `board[row][col] = num`: fillBoard is called on the board
\* as it was.
fillTryNoPlace(e) ==
    LET top == TopOf(e)
        num == top.numbers[top.k]
    IN  IF isValid(View(e.heap, e.fullBoard), top.row, top.col, num)
        THEN [e EXCEPT !.pc = "call"]
        ELSE [e EXCEPT !.stack[Len(e.stack)].k = top.k + 1]

\* One iteration of `for (const num of numbers)`: a valid candidate is
\* placed and fillBoard is called on the board; an invalid one is skipped.
fillTry(e) ==
    LET top == TopOf(e)
        num == top.numbers[top.k]
    IN  IF isValid(View(e.heap, e.fullBoard), top.row, top.col, num)
        THEN [e EXCEPT !.heap = Store(e.heap, e.fullBoard, top.row, top.col, num),
                       !.pc = "call"]
        ELSE [e EXCEPT !.stack[Len(e.stack)].k = top.k + 1]

\* fillExhaust with `return true` after the candidate loop.
fillExhaustTrue(e) ==
    [e EXCEPT !.stack = PopOf(e), !.ret = TRUE, !.pc = "ret"]

\* The candidates are used up: return false.
fillExhaust(e) ==
    [e EXCEPT !.stack = PopOf(e), !.ret = FALSE, !.pc = "ret"]

\* fillResume written as `return fillBoard(board)`: the call returns what the
\* recursive call returned, without trying the next candidate.
fillResumeReturn(e) == [e EXCEPT !.stack = PopOf(e)]

\* fillResume without `board[row][col] = 0`: the placement stays when the
\* recursive call has failed.
fillResumeKeep(e) ==
    IF e.ret
    THEN [e EXCEPT !.stack = PopOf(e)]
    ELSE [e EXCEPT !.stack[Len(e.stack)].k = TopOf(e).k + 1, !.pc = "loop"]

\* A recursive call returned to the call on top of the stack:
\* if (fillBoard(board)) return true; board[row][col] = 0;
fillResume(e) ==
    LET top == TopOf(e)
    IN  IF e.ret
        THEN [e EXCEPT !.stack = PopOf(e)]
        ELSE [e EXCEPT !.heap = Store(e.heap, e.fullBoard, top.row, top.col, 0),
                       !.stack[Len(e.stack)].k = top.k + 1,
                       !.pc = "loop"]

\* fillBoard(fullBoard) returned to generateSudoku, which ignores the result.
fillDone(e) == [e EXCEPT !.pc = "filled"]

\* No copy: the puzzle is the very grid it is given.
AliasPuzzle(v, h, g) == [heap |-> h, grid |-> g]

\* A copy whose row i holds the given grid's row i + 1 (the last one row 0).
RotatedClone(v, h, g) ==
    [heap |-> h \o [i \in 1..9 |-> h[g[i % 9]]],
     grid |-> [r \in Idx |-> Len(h) + r + 1]]

\* The deep copy generateSudoku carves the puzzle from.
ClonePuzzle(v, h, g) ==
    IF v = "page" THEN jsonClone(h, g) ELSE structuredClone(h, g)

\* const puzzle = <deep copy of fullBoard>, and removeNumbers(puzzle, clues)
\* up to its loop: let attempts = 81 - clues.
genClone(e, v, d) ==
    LET c == ClonePuzzle(v, e.heap, e.fullBoard)
    IN  [e EXCEPT !.heap = c.heap, !.puzzle = c.grid,
                  !.attempts = 81 - difficulties[d], !.pc = "remove"]

\* removeNumbers counting every iteration, also one that picks an empty cell.
removeStepAlways(e) ==
    LET x1 == NextRandom(e.rng)
        x2 == NextRandom(x1)
        row == RandomBelow(x1, 9)
        col == RandomBelow(x2, 9)
    IN  [e EXCEPT !.rng = x2,
                  !.heap = Store(e.heap, e.puzzle, row, col, 0),
                  !.attempts = e.attempts - 1]

\* removeNumbers with `attempts -= 2` for `attempts--`.
removeStepTwice(e) ==
    LET x1 == NextRandom(e.rng)
        x2 == NextRandom(x1)
        row == RandomBelow(x1, 9)
        col == RandomBelow(x2, 9)
    IN  IF e.heap[e.puzzle[row]][col] # 0
        THEN [e EXCEPT !.rng = x2,
                       !.heap = Store(e.heap, e.puzzle, row, col, 0),
                       !.attempts = e.attempts - 2]
        ELSE [e EXCEPT !.rng = x2]

\* One iteration of removeNumbers' while loop.
removeStep(e) ==
    LET x1 == NextRandom(e.rng)
        x2 == NextRandom(x1)
        row == RandomBelow(x1, 9)
        col == RandomBelow(x2, 9)
    IN  IF e.heap[e.puzzle[row]][col] # 0
        THEN [e EXCEPT !.rng = x2,
                       !.heap = Store(e.heap, e.puzzle, row, col, 0),
                       !.attempts = e.attempts - 1]
        ELSE [e EXCEPT !.rng = x2]

\* removeNumbers has returned: generateSudoku is at its state updates.
Carved(e) == e.pc = "remove" /\ e.attempts = 0

\* The next statement of a running fillBoard(fullBoard) call.
FillStep(e) ==
    CASE e.pc = "call" -> fillCall(e)
      [] e.pc = "loop" /\ TopOf(e).k <= 9 -> fillTry(e)
      [] e.pc = "loop" /\ TopOf(e).k > 9 -> fillExhaust(e)
      [] e.pc = "ret" /\ e.stack # <<>> -> fillResume(e)
      [] e.pc = "ret" /\ e.stack = <<>> -> fillDone(e)
      [] OTHER -> e

RECURSIVE FillRun(_, _)
\* n statements of fillBoard(fullBoard) from e, or as many as it takes to
\* return to generateSudoku.
FillRun(e, n) ==
    IF e.pc = "filled" \/ n = 0
    THEN e
    ELSE IF n = 1
         THEN FillStep(e)
         ELSE LET half == FillRun(e, n \div 2)
              IN  FillRun(half, n - (n \div 2))

\* The next statement of generateSudoku after fillBoard has returned, for
\* page v and difficulty d.
CarveStep(e, v, d) ==
    CASE e.pc = "filled" -> genClone(e, v, d)
      [] e.pc = "remove" /\ e.attempts > 0 -> removeStep(e)
      [] OTHER -> e

RECURSIVE CarveRun(_, _, _, _)
CarveRun(e, v, d, n) ==
    IF Carved(e) \/ n = 0
    THEN e
    ELSE IF n = 1
         THEN CarveStep(e, v, d)
         ELSE LET half == CarveRun(e, v, d, n \div 2)
              IN  CarveRun(half, v, d, n - (n \div 2))

\* generateSudoku up to the return of fillBoard, run on an empty heap with
\* Math.random in state SeedState(seed), for every stream: fullBoard is
\* rows 1..9.
FilledRuns ==
    {[seed |-> seed,
      run |-> FillRun(genStart([pc |-> "idle", heap |-> <<>>, rng |-> 0,
                                fullBoard |-> NoGrid, puzzle |-> NoGrid,
                                stack |-> <<>>, ret |-> TRUE, attempts |-> 0],
                               SeedState(seed)),
                      StepBudget)] : seed \in Seeds}

Filled(seed) == (CHOOSE f \in FilledRuns : f.seed = seed).run

\* The body of generateSudoku before its state updates, for every page,
\* difficulty and stream: puzzle is rows 10..18.
GeneratedRuns ==
    {[variant |-> v, difficulty |-> d, seed |-> seed,
      run |-> CarveRun(Filled(seed), v, d, StepBudget)] :
        v \in Variants, d \in Difficulties, seed \in Seeds}

generateSudoku(v, d, seed) ==
    (CHOOSE g \in GeneratedRuns :
        g.variant = v /\ g.difficulty = d /\ g.seed = seed).run

\* The fillBoard calls that have been entered and have not returned: the
\* ones inside their loop, and the one just entered while pc = "call".
ActiveCalls == Len(stack) + (IF pc = "call" THEN 1 ELSE 0)

\* The call goes on as n, the record e worked out once.
Becomes(e) ==
    \E n \in {e} :
        /\ pc' = n.pc
        /\ heap' = n.heap
        /\ rng' = n.rng
        /\ fullBoard' = n.fullBoard
        /\ puzzle' = n.puzzle
        /\ stack' = n.stack
        /\ ret' = n.ret
        /\ attempts' = n.attempts

\* generateSudoku starts, from the mount effect (pc = "mount") or from the
\* New Game / Generate button; Math.random's state at that moment selects
\* the stream.
GenStart ==
    /\ pc \in {"mount", "idle"}
    /\ \E seed \in Seeds : Becomes(genStart(Engine, SeedState(seed)))
    /\ UNCHANGED <<uiVars, checkVars>>

FillCall ==
    /\ pc = "call"
    /\ Becomes(fillCall(Engine))
    /\ UNCHANGED <<uiVars, checkVars>>

FillTry ==
    /\ pc = "loop"
    /\ TopOf(Engine).k <= 9
    /\ Becomes(fillTry(Engine))
    /\ UNCHANGED <<uiVars, checkVars>>

FillExhaust ==
    /\ pc = "loop"
    /\ TopOf(Engine).k > 9
    /\ Becomes(fillExhaust(Engine))
    /\ UNCHANGED <<uiVars, checkVars>>

FillResume ==
    /\ pc = "ret"
    /\ stack # <<>>
    /\ Becomes(fillResume(Engine))
    /\ UNCHANGED <<uiVars, checkVars>>

FillDone ==
    /\ pc = "ret"
    /\ stack = <<>>
    /\ Becomes(fillDone(Engine))
    /\ UNCHANGED <<uiVars, checkVars>>

GenClone ==
    /\ pc = "filled"
    /\ Becomes(genClone(Engine, variant, difficulty))
    /\ UNCHANGED <<uiVars, checkVars>>

RemoveStep ==
    /\ pc = "remove"
    /\ attempts > 0
    /\ Becomes(removeStep(Engine))
    /\ UNCHANGED <<uiVars, checkVars>>

\* Commit without setSelectedCell(null): the selection outlives the puzzle.
CommitKeepsSelection(h, p, f) ==
    /\ SetGrids(Compact(h, p, p, f))
    /\ showSolution' = FALSE
    /\ winMessage' = ""
    /\ pc' = "idle"
    /\ fullBoard' = NoGrid
    /\ puzzle' = NoGrid
    /\ stack' = <<>>
    /\ ret' = TRUE
    /\ attempts' = 0
    /\ UNCHANGED <<variant, difficulty, selectedCell, activeHelp, checkVars>>

\* generateSudoku's state updates, for a call that ended with fullBoard f and
\* puzzle p in heap h: setBoard(puzzle); setOriginalBoard(puzzle);
\* setSolutionBoard(fullBoard); setShowSolution(false); setWinMessage("");
\* setSelectedCell(null).
Commit(h, p, f) ==
    /\ SetGrids(Compact(h, p, p, f))
    /\ showSolution' = FALSE
    /\ winMessage' = ""
    /\ selectedCell' = Null
    /\ pc' = "idle"
    /\ fullBoard' = NoGrid
    /\ puzzle' = NoGrid
    /\ stack' = <<>>
    /\ ret' = TRUE
    /\ attempts' = 0
    /\ UNCHANGED <<variant, difficulty, activeHelp, checkVars>>

GenCommit ==
    /\ Carved(Engine)
    /\ Commit(heap, puzzle, fullBoard)
    /\ UNCHANGED rng

\* ------------------------------------------------------------------------
\* The board analyzer
\* ------------------------------------------------------------------------

\* isBoardSolved with the last column left out of the comparison.
IsBoardSolvedShort(m, solution) ==
    ~ \E row \in Idx, col \in 0..7 : m[row][col] # solution[row][col]

\* isBoardSolved reading the solution as solution[col][row].
IsBoardSolvedSwapped(m, solution) ==
    ~ \E row \in Idx, col \in Idx : m[row][col] # solution[col][row]

\* Returns false at the first cell that differs, true after the last cell.
isBoardSolved(m, solution) ==
    ~ \E row \in Idx, col \in Idx : m[row][col] # solution[row][col]

\* src/app/page.tsx: the row, then the column; no test for an empty cell and
\* no box.
findDuplicatesPage(m, row, col) ==
    LET value == m[row][col]
        inRow == \E i \in Idx : i # col /\ m[row][i] = value
    IN  \/ inRow
        \/ /\ ~inRow
           /\ \E i \in Idx : i # row /\ m[i][col] = value

\* src/app/text.tsx (and part_000, part_001, which scan the row and the
\* column in two loops): an empty cell, then row and column, then the box.
findDuplicatesText(m, row, col) ==
    LET value == m[row][col]
        startRow == (row \div 3) * 3
        startCol == (col \div 3) * 3
    IN  IF value = 0
        THEN FALSE
        ELSE \/ \E i \in Idx : \/ (i # col /\ m[row][i] = value)
                               \/ (i # row /\ m[i][col] = value)
             \/ \E i \in startRow..(startRow + 2), j \in startCol..(startCol + 2) :
                    /\ ~(i = row /\ j = col)
                    /\ m[i][j] = value

findDuplicates(v, m, row, col) ==
    IF v = "page" THEN findDuplicatesPage(m, row, col)
    ELSE findDuplicatesText(m, row, col)

\* getTextColor without the help branch: findDuplicates decides on every page.
GetTextColorNoHelp(v, help, m, solution, row, col) ==
    IF findDuplicates(v, m, row, col) THEN "text-red-600" ELSE "text-blue-600"

\* getTextColor(row, col) on page v with activeHelp = help, for the board m
\* and the solution: with help on (src/app/text.tsx only) a non-empty cell
\* is red when it differs from the solution; otherwise a cell is red when
\* the page's findDuplicates says so.
getTextColor(v, help, m, solution, row, col) ==
    IF v \in {"text"} /\ help
    THEN LET currentValue == m[row][col]
             correctValue == solution[row][col]
         IN  IF currentValue # 0 /\ currentValue # correctValue
             THEN "text-red-600"
             ELSE "text-blue-600"
    ELSE IF findDuplicates(v, m, row, col) THEN "text-red-600"
         ELSE "text-blue-600"

\* ------------------------------------------------------------------------
\* The Home component's event handlers
\* ------------------------------------------------------------------------

\* The cells rendered as an <input>: isOriginal is false.
Editable == {cell \in Cells : heap[originalBoard[cell[1]]][cell[2]] = 0}

\* The inputs whose value differs from the solution's.
Differing == {cell \in Editable :
                 heap[board[cell[1]]][cell[2]] # heap[solutionBoard[cell[1]]][cell[2]]}

\* The player's cell: the first input (row-major) whose value differs from
\* the solution, or, when no input differs, the last input.  Typing and
\* clicking are modelled at this cell only.
PlayerCells ==
    With(Differing,
         LAMBDA D : IF D # {} THEN {FirstOf(D)}
                    ELSE With(Editable,
                              LAMBDA E : IF E # {} THEN {LastOf(E)} ELSE {}))

\* The texts the player types into a cell whose solution value is sv: the
\* empty text, a letter, the solution's digit and one other digit.
Typed(sv) == {"", "a", DigitText[sv], DigitText[(sv % 9) + 1]}

\* The state updates of a handler that sets the board to grid b of heap h.
SetBoard(h, b) == SetGrids(Compact(h, b, originalBoard, solutionBoard))

\* The references of grid g after n rows have been put before its rows.
Shift(g, n) == [r \in Idx |-> g[r] + n]

\* The state updates of a generateSudoku call that ran as g.
CommitRun(g) ==
    /\ Carved(g)
    /\ Commit(heap \o g.heap, Shift(g.puzzle, Len(heap)),
              Shift(g.fullBoard, Len(heap)))
    /\ rng' = g.rng

\* generateSudoku as one step (New Game / Generate, or the mount effect).
Generate ==
    /\ pc \in {"mount", "idle"}
    /\ \E seed \in Seeds :
       \E g \in {generateSudoku(variant, difficulty, seed)} : CommitRun(g)

\* onChange of the difficulty <select>.
SetDifficulty ==
    /\ pc = "idle"
    /\ \E d \in Difficulties : difficulty' = d
    /\ UNCHANGED <<variant, heap, board, originalBoard, solutionBoard,
                   showSolution, winMessage, selectedCell, activeHelp, genVars, checkVars>>

\* const displayedBoard = showSolution ? solutionBoard : board
displayedBoard == IF showSolution THEN solutionBoard ELSE board

\* A Show Solution button that also copies the solution into the board.
ToggleShowSolutionCopies ==
    /\ pc = "idle"
    /\ showSolution' = ~showSolution
    /\ SetBoard(heap, solutionBoard)
    /\ UNCHANGED <<variant, difficulty, winMessage, selectedCell, activeHelp,
                   genVars, checkVars>>

\* The Show Solution button.
ToggleShowSolution ==
    /\ pc = "idle"
    /\ showSolution' = ~showSolution
    /\ UNCHANGED <<variant, heap, difficulty, board, originalBoard, solutionBoard,
                   winMessage, selectedCell, activeHelp, genVars, checkVars>>

\* The Activate Help button.
ToggleHelp ==
    /\ pc = "idle"
    /\ variant \in HelpVariants
    /\ activeHelp' = ~activeHelp
    /\ UNCHANGED <<variant, heap, difficulty, board, originalBoard, solutionBoard,
                   showSolution, winMessage, selectedCell, genVars, checkVars>>

\* const newValue = Number.isNaN(num) || num < 1 || num > 9 ? 0 : num
NewValue(text) ==
    LET num == parseInt(text)
    IN  IF num.isNaN THEN 0
        ELSE IF num.value < 1 \/ num.value > 9 THEN 0 ELSE num.value

\* MapCell with `j === row` for `j === col`: the value goes to column row.
MapCellByRow(h, b, row, col, v) ==
    [heap |-> Append(h, [h[b[row]] EXCEPT ![row] = v]),
     grid |-> [b EXCEPT ![row] = Len(h) + 1]]

\* MapCell as `prev[row][col] = v; return prev`: the write goes into the row
\* array the board shares with the original board.
MapCellInPlace(h, b, row, col, v) ==
    [heap |-> Store(h, b, row, col, v), grid |-> b]

\* prev.map((r, i) => i === row ? r.map((c, j) => j === col ? v : c) : r):
\* one fresh row, the other rows shared with prev.
MapCell(h, b, row, col, v) ==
    [heap |-> Append(h, [h[b[row]] EXCEPT ![col] = v]),
     grid |-> [b EXCEPT ![row] = Len(h) + 1]]

\* board.map((r) => [...r]) and updatedBoard[row][col] = v: nine fresh rows.
CopyAndSet(h, b, row, col, v) ==
    LET c == structuredClone(h, b)
    IN  [heap |-> Store(c.heap, c.grid, row, col, v), grid |-> c.grid]

\* handleInputChange(row, col, text), from the onChange of a rendered input.
\* Inputs are rendered for the cells that are 0 in originalBoard.
\* On the pages with cell selection the player has clicked the input (its
\* onClick selects the cell) before typing into it.
InputChange ==
    /\ pc = "idle"
    /\ \E cell \in PlayerCells :
       \E text \in Typed(heap[solutionBoard[cell[1]]][cell[2]]) :
       \E u \in {IF variant = "page"
                 THEN CopyAndSet(heap, board, cell[1], cell[2], NewValue(text))
                 ELSE MapCell(heap, board, cell[1], cell[2], NewValue(text))} :
         /\ variant \in SelectVariants => selectedCell = cell
         /\ cell \in Editable
         /\ SetBoard(u.heap, u.grid)
         /\ winMessage' =
              IF isBoardSolved(View(u.heap, u.grid), View(heap, solutionBoard))
              THEN WinText
              ELSE IF variant = "page" THEN winMessage ELSE ""
    /\ UNCHANGED <<variant, difficulty, showSolution, selectedCell, activeHelp,
                   genVars, checkVars>>

\* handleCellSelect(row, col), from the onClick of a rendered input.
CellSelect ==
    /\ pc = "idle"
    /\ variant \in SelectVariants
    /\ \E cell \in PlayerCells :
         /\ heap[originalBoard[cell[1]]][cell[2]] = 0
         /\ selectedCell' = cell
    /\ UNCHANGED <<variant, heap, difficulty, board, originalBoard, solutionBoard,
                   showSolution, winMessage, activeHelp, genVars, checkVars>>

\* RevealSelected without setSelectedCell(null).
RevealKeepsSelection ==
    /\ pc = "idle"
    /\ variant \in SelectVariants
    /\ selectedCell # Null
    /\ \E row \in {selectedCell[1]}, col \in {selectedCell[2]} :
         IF heap[originalBoard[row]][col] # 0
         THEN UNCHANGED <<heap, board, originalBoard, solutionBoard, winMessage>>
         ELSE \E u \in {MapCell(heap, board, row, col, heap[solutionBoard[row]][col])} :
                /\ SetBoard(u.heap, u.grid)
                /\ winMessage' =
                     IF isBoardSolved(View(u.heap, u.grid), View(heap, solutionBoard))
                     THEN WinText
                     ELSE winMessage
    /\ UNCHANGED <<variant, difficulty, showSolution, selectedCell, activeHelp,
                   genVars, checkVars>>

\* RevealSelected without the isBoardSolved test: the message is never set.
RevealNoWinCheck ==
    /\ pc = "idle"
    /\ variant \in SelectVariants
    /\ selectedCell # Null
    /\ \E row \in {selectedCell[1]}, col \in {selectedCell[2]} :
         IF heap[originalBoard[row]][col] # 0
         THEN UNCHANGED <<heap, board, originalBoard, solutionBoard, selectedCell>>
         ELSE \E u \in {MapCell(heap, board, row, col, heap[solutionBoard[row]][col])} :
                /\ SetBoard(u.heap, u.grid)
                /\ selectedCell' = Null
    /\ UNCHANGED <<variant, difficulty, showSolution, winMessage, activeHelp,
                   genVars, checkVars>>

\* handleShowSelectedSolution, from the Reveal Selected Cell button (disabled
\* while no cell is selected).
RevealSelected ==
    /\ pc = "idle"
    /\ variant \in SelectVariants
    /\ selectedCell # Null
    /\ \E row \in {selectedCell[1]}, col \in {selectedCell[2]} :
         IF heap[originalBoard[row]][col] # 0
         THEN UNCHANGED <<heap, board, originalBoard, solutionBoard,
                          winMessage, selectedCell>>
         ELSE \E u \in {MapCell(heap, board, row, col, heap[solutionBoard[row]][col])} :
                /\ SetBoard(u.heap, u.grid)
                /\ winMessage' =
                     IF isBoardSolved(View(u.heap, u.grid), View(heap, solutionBoard))
                     THEN WinText
                     ELSE winMessage
                /\ selectedCell' = Null
    /\ UNCHANGED <<variant, difficulty, showSolution, activeHelp, genVars, checkVars>>

\* ------------------------------------------------------------------------
\* Single calls of isValid, findDuplicates and isBoardSolved
\* ------------------------------------------------------------------------

\* The grid fillBoard(fullBoard) produced in stream seed.
Solution(seed) == View(Filled(seed).heap, Filled(seed).fullBoard)

\* The puzzle generateSudoku carved on page v at difficulty d in stream seed.
Puzzle(v, d, seed) ==
    View(generateSudoku(v, d, seed).heap, generateSudoku(v, d, seed).puzzle)

\* The grids a call is given to start with: the empty grid, the solutions
\* and the puzzles of the page.
BaseGrids(v) ==
    {ZeroGrid} \cup {Solution(seed) : seed \in Seeds}
               \cup {Puzzle(v, d, seed) : d \in Difficulties, seed \in Seeds}

\* The cells and the values written on top of a base grid: cells that share
\* a row, a column or only a box with (0, 0).
ProbeCells == {<<0, 0>>, <<0, 8>>, <<8, 0>>, <<1, 1>>}

ProbeValues == {0, 5}

InitCheck ==
    /\ InitHome
    /\ InitGen
    /\ argBoard \in BaseGrids(variant)
    /\ returned = NotCalled

\* board[row][col] = v on the grid the calls are given.
Write ==
    /\ \E cell \in ProbeCells, v \in ProbeValues :
         argBoard' = [argBoard EXCEPT ![cell[1]][cell[2]] = v]
    /\ returned' = NotCalled
    /\ UNCHANGED <<uiVars, heap, genVars>>

\* The grid with rows and columns exchanged.
Transpose(m) == [r \in Idx |-> [c \in Idx |-> m[c][r]]]

\* What JavaScript reads at an index that an array does not have.
undefined == -1

\* board[row][col] for a row of the grid and any integer col.
Elem(m, row, col) == IF col \in Idx THEN m[row][col] ELSE undefined

\* How a call ends: it returns a value, or an exception leaves it.
Returns(value) == [kind |-> "return", value |-> value]

Throws == [kind |-> "TypeError"]

\* isValid(board, row, col, num) for any integers row, col and num.  With
\* row outside 0..8, board[row] is undefined and board[row][i] throws a
\* TypeError at i = 0.  Otherwise every board[..] is one of the nine rows
\* (boxRow is in 0..8 when row is) and a column outside 0..8 reads
\* undefined, which is === to no number.
isValidOutcome(m, row, col, num) ==
    IF row \notin Idx
    THEN Throws
    ELSE Returns(\A i \in Idx :
                    LET boxRow == 3 * (row \div 3) + (i \div 3)
                        boxCol == 3 * (col \div 3) + (i % 3)
                    IN  /\ ~(m[row][i] = num \/ Elem(m, i, col) = num)
                        /\ ~(Elem(m, boxRow, boxCol) = num))

\* findDuplicates(board, row, col) of page v for any integers row and col.
\* With row outside 0..8 the first statement, board[row][col], throws a
\* TypeError.  With col outside 0..8 value is undefined, and so is every
\* board[i][col], which is === to value.
findDuplicatesOutcome(v, m, row, col) ==
    IF row \notin Idx
    THEN Throws
    ELSE LET value == Elem(m, row, col)
             startRow == (row \div 3) * 3
             startCol == (col \div 3) * 3
             inRow == \E i \in Idx : i # col /\ m[row][i] = value
             inCol == \E i \in Idx : i # row /\ Elem(m, i, col) = value
         IN  IF v = "page"
             THEN Returns(inRow \/ inCol)
             ELSE IF value = 0
                  THEN Returns(FALSE)
                  ELSE Returns(\/ inRow
                               \/ inCol
                               \/ \E i \in startRow..(startRow + 2),
                                     j \in startCol..(startCol + 2) :
                                      /\ ~(i = row /\ j = col)
                                      /\ Elem(m, i, j) = value)

\* The rows and columns, and the values, the calls are given: inside and
\* outside the grid, inside and outside 1..9.
WideIdx == {-1, 0, 4, 8, 9}

WideNums == {0, 5, 10}

\* isValid(argBoard, row, col, num) and findDuplicates(argBoard, row, col)
\* for the arguments of WideIdx and WideNums.
CallOutOfRange ==
    /\ returned = NotCalled
    /\ returned' = [fn |-> "outOfRange",
                    isValid |-> [row \in WideIdx, col \in WideIdx, num \in WideNums |->
                                    isValidOutcome(argBoard, row, col, num)],
                    findDuplicates |-> [row \in WideIdx, col \in WideIdx |->
                                    findDuplicatesOutcome(variant, argBoard, row, col)]]
    /\ UNCHANGED <<uiVars, heap, genVars, argBoard>>

\* isValid(argBoard, row, col, num) and isValid(transpose(argBoard), row,
\* col, num), for every row, col and num.
CallIsValid ==
    /\ returned = NotCalled
    /\ returned' = [fn |-> "isValid",
                    value |-> [row \in Idx, col \in Idx, num \in Digits |->
                                  isValid(argBoard, row, col, num)],
                    transposed |-> [row \in Idx, col \in Idx, num \in Digits |->
                                  isValid(Transpose(argBoard), row, col, num)]]
    /\ UNCHANGED <<uiVars, heap, genVars, argBoard>>

\* The page's findDuplicates(argBoard, row, col), for every row and col.
CallFindDuplicates ==
    /\ returned = NotCalled
    /\ returned' = [fn |-> "findDuplicates",
                    value |-> [row \in Idx, col \in Idx |->
                                  findDuplicates(variant, argBoard, row, col)]]
    /\ UNCHANGED <<uiVars, heap, genVars, argBoard>>

\* isValid(argBoard, row, col, num) next to the page's findDuplicates on
\* argBoard with num written at (row, col), for every row, col and num.
CallPlacement ==
    /\ returned = NotCalled
    /\ returned' = [fn |-> "placement",
                    isValid |-> [row \in Idx, col \in Idx, num \in Digits |->
                                  isValid(argBoard, row, col, num)],
                    findDuplicates |-> [row \in Idx, col \in Idx, num \in Digits |->
                                  findDuplicates(variant,
                                      [argBoard EXCEPT ![row][col] = num], row, col)]]
    /\ UNCHANGED <<uiVars, heap, genVars, argBoard>>

\* isBoardSolved(argBoard, solution), for the solution of every stream.
CallIsBoardSolved ==
    /\ returned = NotCalled
    /\ returned' = [fn |-> "isBoardSolved",
                    value |-> [seed \in Seeds |->
                                  isBoardSolved(argBoard, Solution(seed))]]
    /\ UNCHANGED <<uiVars, heap, genVars, argBoard>>

\* ------------------------------------------------------------------------
\* Single calls of fillBoard
\* ------------------------------------------------------------------------

\* Matrix m with the cells of S set to 0.
Blank(m, S) ==
    [r \in Idx |-> [c \in Idx |-> IF <<r, c>> \in S THEN 0 ELSE m[r][c]]]

\* A grid without a completion, made from the complete grid m: the value v
\* of (8, 8) is moved into column 8 at (0, 8), the rest of row 0, the cell
\* of box 2 that held v and (8, 8) are emptied.  No value is twice in a
\* row, column or box, and (8, 8) can take no value.
DeadEnd(m) ==
    LET v == m[8][8]
        inBox == CHOOSE cell \in (0..2) \X (6..8) : m[cell[1]][cell[2]] = v
        emptied == Blank(m, {cell \in Cells : cell[1] = 0} \cup {inBox, <<8, 8>>})
    IN  [emptied EXCEPT ![0][8] = v]

\* The complete grid m with the value of (0, 1) also at (0, 0).
Clash(m) == [m EXCEPT ![0][0] = m[0][1]]

\* A complete grid with each value once in every row, column and box: row r
\* is 1..9 rotated by 3 * (r % 3) + r \div 3.
ShiftGrid ==
    [r \in Idx |-> [c \in Idx |-> ((3 * (r % 3) + (r \div 3) + c) % 9) + 1]]

\* The cells (r, c) with r + c even: 41 of the 81.
EvenCells == {cell \in Cells : (cell[1] + cell[2]) % 2 = 0}

\* The grids fillBoard is called on: the empty grid, a grid with 40 clues,
\* a grid without a completion and a complete grid with a value twice in a
\* row.
FillInputs ==
    {ZeroGrid, Blank(ShiftGrid, EvenCells), DeadEnd(ShiftGrid), Clash(ShiftGrid)}

InitFill ==
    /\ InitHome
    /\ variant = "text"
    /\ InitGen
    /\ argBoard \in FillInputs
    /\ returned = NotCalled

\* fillBoard(board) is called on a grid that holds argBoard, with
\* Math.random in the state of a stream.
fillStart(e, m, x) ==
    [e EXCEPT !.heap = e.heap \o [i \in 1..9 |-> m[i - 1]],
              !.fullBoard = [r \in Idx |-> Len(e.heap) + r + 1],
              !.rng = x, !.pc = "call"]

FillStart ==
    /\ pc \in {"mount", "idle"}
    /\ \E seed \in Seeds : Becomes(fillStart(Engine, argBoard, SeedState(seed)))
    /\ UNCHANGED <<uiVars, checkVars>>

\* ------------------------------------------------------------------------
\* Single calls of removeNumbers
\* ------------------------------------------------------------------------

\* 24 cells: the first 8 of every 27 in row-major order.
EightOf27 == {cell \in Cells : (9 * cell[1] + cell[2]) % 27 < 8}

\* The grids removeNumbers is called on: a complete grid, and a grid with 57
\* non-zero cells (as many as the largest number of removals).
RemoveInputs == {ShiftGrid, Blank(ShiftGrid, EightOf27)}

\* The clue counts removeNumbers is called with.
ClueCounts == {difficulties[d] : d \in Difficulties}

InitRemove ==
    /\ InitHome
    /\ variant = "text"
    /\ InitGen
    /\ argBoard \in RemoveInputs
    /\ returned = NotCalled

\* removeNumbers(board, clues) is called on a grid that holds m, with
\* Math.random in state x: let attempts = 81 - clues.
removeStart(e, m, clues, x) ==
    [e EXCEPT !.heap = e.heap \o [i \in 1..9 |-> m[i - 1]],
              !.puzzle = [r \in Idx |-> Len(e.heap) + r + 1],
              !.attempts = 81 - clues,
              !.rng = x, !.pc = "remove"]

\* removeNumbers(board, clues) is called again on the grid it has returned.
removeAgain(e, clues) == [e EXCEPT !.attempts = 81 - clues, !.pc = "remove"]

\* The cell the next iteration of removeNumbers' loop picks.
Picked ==
    <<RandomBelow(NextRandom(rng), 9), RandomBelow(NextRandom(NextRandom(rng)), 9)>>

RemoveStart ==
    /\ pc \in {"mount", "idle"}
    /\ \E seed \in Seeds, clues \in ClueCounts :
         /\ Becomes(removeStart(Engine, argBoard, clues, SeedState(seed)))
         /\ returned' = [fn |-> "removeNumbers", clues |-> clues, calls |-> 1]
    /\ UNCHANGED <<uiVars, argBoard>>

\* `while (attempts > 0)` is false: return board.
RemoveReturn ==
    /\ pc = "remove"
    /\ ~(attempts > 0)
    /\ pc' = "removed"
    /\ UNCHANGED <<uiVars, heap, rng, fullBoard, puzzle, stack, ret, attempts,
                   checkVars>>

\* The second removeNumbers call, with the clue count of the first, on the
\* puzzle the first has carved from a complete grid.
RemoveAgain ==
    /\ pc = "removed"
    /\ returned.calls = 1
    /\ EmptyCells(argBoard) = {}
    /\ Becomes(removeAgain(Engine, returned.clues))
    /\ returned' = [returned EXCEPT !.calls = 2]
    /\ UNCHANGED <<uiVars, argBoard>>

\* ------------------------------------------------------------------------
\* generateMultipleSudokus
\* ------------------------------------------------------------------------

\* The largest count generateMultipleSudokus is called with.
MaxCount == 2

\* The push written as `sudokus.push({ puzzle, solution: puzzle })`.
PushPairAliased(sudokus, e) ==
    Append(sudokus, [puzzle |-> e.puzzle, solution |-> e.puzzle])

\* sudokus.push({ puzzle, solution: fullBoard })
pushPair(sudokus, e) ==
    Append(sudokus, [puzzle |-> e.puzzle, solution |-> e.fullBoard])

\* The loop body up to the push, at difficulty d: generateEmptyBoard,
\* fillBoard, structuredClone, removeNumbers; Math.random goes on from the
\* state the call before left it in.
manyIteration(e, d) ==
    CarveRun(FillRun(genStart(e, e.rng), StepBudget), "text", d, StepBudget)

RECURSIVE ManyFrom(_, _, _, _)
\* The iterations i, i + 1, ..., count - 1 of the loop (left of them).
ManyFrom(e, sudokus, d, left) ==
    IF left = 0
    THEN [heap |-> e.heap, rng |-> e.rng, sudokus |-> sudokus]
    ELSE With(manyIteration(e, d),
              LAMBDA n : ManyFrom(n, pushPair(sudokus, n), d, left - 1))

\* generateMultipleSudokus(count) at difficulty d, run on an empty heap with
\* Math.random in state SeedState(seed), for every count and stream.
ManyRuns ==
    {[difficulty |-> d, seed |-> seed, count |-> count,
      run |-> ManyFrom([pc |-> "idle", heap |-> <<>>, rng |-> SeedState(seed),
                        fullBoard |-> NoGrid, puzzle |-> NoGrid,
                        stack |-> <<>>, ret |-> TRUE, attempts |-> 0],
                       <<>>, d, count)] :
        d \in Difficulties, seed \in Seeds, count \in 0..MaxCount}

generateMultipleSudokus(d, seed, count) ==
    (CHOOSE m \in ManyRuns :
        m.difficulty = d /\ m.seed = seed /\ m.count = count).run

\* The pairs with their references moved behind n rows.
ShiftPairs(sudokus, n) ==
    [i \in 1..Len(sudokus) |-> [puzzle |-> Shift(sudokus[i].puzzle, n),
                                solution |-> Shift(sudokus[i].solution, n)]]

\* handleDownloadPDF up to `const sudokus = generateMultipleSudokus(count)`:
\* the pairs are the handler's local, the handler is running (pc = "pdf").
CallGenerateMany ==
    /\ pc = "idle"
    /\ variant = "text"
    /\ returned = NotCalled
    /\ \E count \in 0..MaxCount, seed \in Seeds :
       \E r \in {generateMultipleSudokus(difficulty, seed, count)} :
         /\ heap' = heap \o r.heap
         /\ rng' = r.rng
         /\ returned' = [fn |-> "generateMultipleSudokus", count |-> count,
                         value |-> ShiftPairs(r.sudokus, Len(heap))]
    /\ pc' = "pdf"
    /\ UNCHANGED <<uiVars, fullBoard, puzzle, stack, ret, attempts, argBoard>>

\* The cells written in a returned puzzle.
ManyCells == {<<0, 0>>, <<8, 8>>}

\* sudokus[i].puzzle[row][col] = v, in place, on a returned pair.
ManyWrite ==
    /\ pc = "pdf"
    /\ \E i \in 1..Len(returned.value), cell \in ManyCells, v \in ProbeValues :
         heap' = Store(heap, returned.value[i].puzzle, cell[1], cell[2], v)
    /\ UNCHANGED <<uiVars, genVars, checkVars>>

\* ------------------------------------------------------------------------
\* Specifications
\* ------------------------------------------------------------------------

Init ==
    /\ InitHome
    /\ InitGen
    /\ InitArgs

Next ==
    \/ Generate
    \/ SetDifficulty
    \/ ToggleShowSolution
    \/ ToggleHelp
    \/ InputChange
    \/ CellSelect
    \/ RevealSelected

\* The pages under the player's events, each handler one step.
Spec == Init /\ [][Next]_vars

NextEngine ==
    \/ SetDifficulty
    \/ GenStart
    \/ FillCall
    \/ FillTry
    \/ FillExhaust
    \/ FillResume
    \/ FillDone
    \/ GenClone
    \/ RemoveStep
    \/ GenCommit

\* generateSudoku observed statement by statement.
SpecEngine == Init /\ [][NextEngine]_vars

\* A generateSudoku call that has started runs to its end: JavaScript runs
\* the handler to completion, one statement after the other.
EngineStep ==
    \/ FillCall
    \/ FillTry
    \/ FillExhaust
    \/ FillResume
    \/ FillDone
    \/ GenClone
    \/ RemoveStep
    \/ GenCommit

SpecEngineFair == SpecEngine /\ WF_vars(EngineStep)

NextCheck ==
    \/ Write
    \/ CallIsValid
    \/ CallFindDuplicates
    \/ CallIsBoardSolved
    \/ CallOutOfRange
    \/ CallPlacement

\* Single calls of the engine's functions on grids built from the generated
\* ones.
SpecCheck == InitCheck /\ [][NextCheck]_vars

NextMany ==
    \/ Generate
    \/ SetDifficulty
    \/ CallGenerateMany
    \/ ManyWrite

\* The page of src/app/text.tsx up to one generateMultipleSudokus call, whose
\* pairs are then written to.
SpecMany == Init /\ [][NextMany]_vars

NextFill ==
    \/ FillStart
    \/ FillCall
    \/ FillTry
    \/ FillExhaust
    \/ FillResume
    \/ FillDone

\* fillBoard called on a given grid, statement by statement.
SpecFill == InitFill /\ [][NextFill]_vars

NextRemove ==
    \/ RemoveStart
    \/ RemoveStep
    \/ RemoveReturn

\* removeNumbers called on a given grid, iteration by iteration.
SpecRemove == InitRemove /\ [][NextRemove]_vars

\* A removeNumbers call that has started goes on: JavaScript runs it one
\* iteration after the other until the loop condition is false.
SpecRemoveFair == SpecRemove /\ WF_vars(RemoveStep \/ RemoveReturn)

NextRemoveTwice ==
    \/ NextRemove
    \/ RemoveAgain

\* removeNumbers called on a complete grid and then again on its result.
SpecRemoveTwice == InitRemove /\ [][NextRemoveTwice]_vars

\* After a New Game (the solution board is complete) the player starts to
\* reveal the inputs one after the other.
StartRevealAll ==
    /\ pc = "idle"
    /\ variant \in SelectVariants
    /\ returned = NotCalled
    /\ EmptyCells(View(heap, solutionBoard)) = {}
    /\ returned' = [fn |-> "revealAll"]
    /\ UNCHANGED <<uiVars, heap, genVars, argBoard>>

\* The player clicks an input or presses Reveal Selected Cell, and does
\* nothing else.
RevealAllStep ==
    /\ returned.fn = "revealAll"
    /\ (CellSelect \/ RevealSelected)

NextRevealAll ==
    \/ (returned = NotCalled /\ Next)
    \/ StartRevealAll
    \/ RevealAllStep

\* Any play on the page, then the player reveals cell after cell and goes
\* on doing so.
SpecRevealAll ==
    Init /\ [][NextRevealAll]_vars /\ WF_vars(RevealAllStep)

\* ------------------------------------------------------------------------
\* Properties
\* ------------------------------------------------------------------------

At(m, cell) == m[cell[1]][cell[2]]

RowCells(k) == {cell \in Cells : cell[1] = k}

ColCells(k) == {cell \in Cells : cell[2] = k}

BoxCells(k) == {cell \in Cells : 3 * (cell[1] \div 3) + (cell[2] \div 3) = k}

\* The 27 rows, columns and aligned 3x3 boxes.
Units == {RowCells(k) : k \in Idx} \cup {ColCells(k) : k \in Idx}
                                   \cup {BoxCells(k) : k \in Idx}

\* The cells of the row, the column and the box of cell, cell included.
Region(cell) ==
    {o \in Cells : \/ o[1] = cell[1]
                   \/ o[2] = cell[2]
                   \/ (o[1] \div 3 = cell[1] \div 3 /\ o[2] \div 3 = cell[2] \div 3)}

\* The values the cells of S hold in m.
Held(m, S) == {At(m, cell) : cell \in S}

EachOnce(m) ==
    \A u \in Units, d \in Digits : Cardinality({cell \in u : At(m, cell) = d}) = 1

Clues(m) == Cardinality({cell \in Cells : At(m, cell) # 0})

ClaimedClues == [easy |-> 40, medium |-> 32, hard |-> 24]

\* C1: when fillBoard, started on the all-zero grid, has returned, the grid
\* holds each of 1..9 exactly once in every row, column and aligned box.
C1_FilledGridValid ==
    pc = "filled" => EachOnce(View(heap, fullBoard))

\* fillBoard has returned on a grid without an empty cell.
C1_Witness ==
    /\ pc = "filled"
    /\ EmptyCells(View(heap, fullBoard)) = {}

\* C2: when removeNumbers has returned, the puzzle has exactly the clue
\* count of the difficulty: 40 for easy, 32 for medium, 24 for hard.
C2_ClueCount ==
    Carved(Engine) => Clues(View(heap, puzzle)) = ClaimedClues[difficulty]

\* A hard puzzle has been carved.
C2_Witness ==
    /\ Carved(Engine)
    /\ difficulty = "hard"
    /\ Clues(View(heap, puzzle)) = 24

\* C3: while and after removeNumbers carves it, every non-zero cell of the
\* puzzle holds the value of the same cell of the solution.
C3_PuzzleAgrees ==
    pc = "remove" =>
        \A cell \in Cells :
            At(View(heap, puzzle), cell) # 0 =>
                At(View(heap, puzzle), cell) = At(View(heap, fullBoard), cell)

\* A carved puzzle with empty cells and clues.
C3_Witness ==
    /\ Carved(Engine)
    /\ \E cell \in Cells : At(View(heap, puzzle), cell) = 0
    /\ \E cell \in Cells : At(View(heap, puzzle), cell) # 0

\* C4: fillBoard called on the all-zero grid returns, and what it returns
\* to generateSudoku is never false.
C4_FillTerminatesTrue ==
    /\ [](pc = "filled" => ret)
    /\ (pc = "call" /\ stack = <<>>) ~> (pc = "filled")

\* The outermost fillBoard call has just returned true.
C4_Witness ==
    /\ pc = "ret"
    /\ stack = <<>>
    /\ ret

\* C5: isBoardSolved(board, solution) is true if and only if the 81 cells
\* of board equal those of solution.
C5_SolvedIffEqual ==
    returned.fn = "isBoardSolved" =>
        \A seed \in Seeds :
            returned.value[seed] =
                (\A cell \in Cells : At(argBoard, cell) = At(Solution(seed), cell))

\* The board is a complete rule-satisfying grid: the call is true for the
\* solution it equals and false for another one.
C5_Witness ==
    /\ returned.fn = "isBoardSolved"
    /\ EachOnce(argBoard)
    /\ \E seed \in Seeds : returned.value[seed]
    /\ \E seed \in Seeds : ~returned.value[seed]

\* C6 as claimed: isValid(grid, row, col, value) is false exactly when value
\* is held by a cell other than (row, col) of the same row, column or box.
C6_FalseIffHeldElsewhere ==
    returned.fn = "isValid" =>
        \A row \in Idx, col \in Idx :
            \A elsewhere \in {Held(argBoard, Region(<<row, col>>) \ {<<row, col>>})} :
                \A num \in Digits :
                    returned.value[row, col, num] = (num \notin elsewhere)

\* C6 amended: isValid(grid, row, col, value) is false exactly when value is
\* held by a cell of the same row, column or box, (row, col) itself included;
\* when (row, col) is empty that is when it is held by another such cell.
C6_FalseIffHeld ==
    returned.fn = "isValid" =>
        \A row \in Idx, col \in Idx :
            \A held \in {Held(argBoard, Region(<<row, col>>))},
               elsewhere \in {Held(argBoard, Region(<<row, col>>) \ {<<row, col>>})} :
                \A num \in Digits :
                    /\ returned.value[row, col, num] = (num \notin held)
                    /\ argBoard[row][col] = 0 =>
                           returned.value[row, col, num] = (num \notin elsewhere)

\* isValid is false for a value held by cell (row, col) and by no other cell
\* of its row, column and box.
C6_Witness ==
    /\ returned.fn = "isValid"
    /\ \E row \in Idx, col \in Idx :
         /\ argBoard[row][col] \in Digits
         /\ \A cell \in Region(<<row, col>>) \ {<<row, col>>} :
                At(argBoard, cell) # argBoard[row][col]
         /\ ~returned.value[row, col, argBoard[row][col]]

\* C7: for a cell holding a non-zero value, findDuplicates is true if and
\* only if another cell of its row, column or box holds that value.
C7_DuplicateIffHeldElsewhere ==
    returned.fn = "findDuplicates" =>
        \A row \in Idx, col \in Idx :
            argBoard[row][col] # 0 =>
                returned.value[row, col] =
                    \E cell \in Region(<<row, col>>) \ {<<row, col>>} :
                        At(argBoard, cell) = argBoard[row][col]

\* C8: on every page findDuplicates is false for a cell that holds 0.
C8_EmptyCellNoDuplicate ==
    returned.fn = "findDuplicates" =>
        \A row \in Idx, col \in Idx :
            argBoard[row][col] = 0 => ~returned.value[row, col]

\* C9: the board holds the original board's value in every cell that is
\* non-zero in the original board.
C9_CluesKept ==
    \A cell \in Cells :
        At(View(heap, originalBoard), cell) # 0 =>
            At(View(heap, board), cell) = At(View(heap, originalBoard), cell)

\* A puzzle with clues whose board the player has changed.
C9_Witness ==
    /\ \E cell \in Cells : At(View(heap, originalBoard), cell) # 0
    /\ \E cell \in Cells :
           At(View(heap, board), cell) # At(View(heap, originalBoard), cell)

\* C10: the solution board is the all-zero grid of the initial state or,
\* cell by cell, a grid fillBoard produced, which has no zero cell: neither
\* the carving of the puzzle nor an edit or a reveal has changed it.
C10_SolutionKept ==
    \/ View(heap, solutionBoard) = ZeroGrid
    \/ /\ EmptyCells(View(heap, solutionBoard)) = {}
       /\ \E seed \in Seeds : View(heap, solutionBoard) = Solution(seed)

\* The player has solved a generated puzzle: the board, changed cell by
\* cell, equals the solution fillBoard produced.
C10_Witness ==
    /\ \E seed \in Seeds : View(heap, solutionBoard) = Solution(seed)
    /\ View(heap, board) = View(heap, solutionBoard)
    /\ winMessage = WinText

\* The references of all rows of the pairs' grids, puzzles first.
PairRefs(sudokus) ==
    [k \in 1..(2 * Len(sudokus)) |->
        IF k <= Len(sudokus) THEN sudokus[k].puzzle
        ELSE sudokus[k - Len(sudokus)].solution]

\* C11: generateMultipleSudokus(count) returns count pairs, each puzzle with
\* the clue count of the difficulty, and the 18 * count rows of their grids
\* are distinct arrays; a write to a cell of one pair's puzzle changes no
\* other pair's puzzle and no pair's solution.
C11_ManyIndependent ==
    [][/\ (returned.fn = "none" /\ returned'.fn = "generateMultipleSudokus") =>
            /\ Len(returned'.value) = returned'.count
            /\ \A i \in 1..Len(returned'.value) :
                   Clues(View(heap', returned'.value[i].puzzle)) =
                       ClaimedClues[difficulty]
            /\ \A k, l \in 1..(2 * Len(returned'.value)), r, q \in Idx :
                   PairRefs(returned'.value)[k][r] = PairRefs(returned'.value)[l][q]
                       => (k = l /\ r = q)
       /\ (returned.fn = "generateMultipleSudokus" /\ returned' = returned) =>
            \A i \in 1..Len(returned.value) :
                View(heap', returned.value[i].puzzle) #
                    View(heap, returned.value[i].puzzle) =>
                    /\ \A j \in 1..Len(returned.value) :
                           View(heap', returned.value[j].solution) =
                               View(heap, returned.value[j].solution)
                    /\ \A j \in 1..Len(returned.value) \ {i} :
                           View(heap', returned.value[j].puzzle) =
                               View(heap, returned.value[j].puzzle)]_vars

\* Two pairs were returned and a cell of the first pair's puzzle was changed
\* to a value its solution does not hold; the second pair is as returned.
C11_Witness ==
    /\ returned.fn = "generateMultipleSudokus"
    /\ returned.count >= 2
    /\ \E cell \in Cells :
           /\ At(View(heap, returned.value[1].puzzle), cell) # 0
           /\ At(View(heap, returned.value[1].puzzle), cell) #
                  At(View(heap, returned.value[1].solution), cell)
    /\ Clues(View(heap, returned.value[2].puzzle)) = ClaimedClues[difficulty]
    /\ EachOnce(View(heap, returned.value[2].solution))

\* C12: the win message is shown only while the board equals the solution
\* board cell by cell (so a change that makes them differ removes it).
C12_WinOnlyIfSolved ==
    winMessage # "" => View(heap, board) = View(heap, solutionBoard)

\* C13: with the help mode off, every input holding a value that is not 0
\* and not the solution's value is drawn in red.
C13_WrongIsRed ==
    ~activeHelp =>
        \A cell \in Editable :
            (/\ At(View(heap, board), cell) # 0
             /\ At(View(heap, board), cell) # At(View(heap, solutionBoard), cell))
            => getTextColor(variant, activeHelp, View(heap, board),
                            View(heap, solutionBoard), cell[1], cell[2])
                   = "text-red-600"

\* No non-zero value of m is outside 1..9 or twice in a row, column or box.
ConflictFree(m) ==
    \A cell \in Cells :
        At(m, cell) # 0 =>
            /\ At(m, cell) \in Digits
            /\ \A o \in Region(cell) \ {cell} : At(m, o) # At(m, cell)

\* g holds the value of m in every cell that is not empty in m.
Extends(g, m) == \A cell \in Cells : At(m, cell) # 0 => At(g, cell) = At(m, cell)

\* An empty cell of m whose row, column and box hold all of 1..9: m has no
\* completion.
Blocked(m) ==
    \E cell \in Cells :
        At(m, cell) = 0 /\ Digits \subseteq Held(m, Region(cell))

\* What fillBoard's result says about the grid it was called on.
FillResultRight ==
    /\ ret => /\ EmptyCells(View(heap, fullBoard)) = {}
              /\ EachOnce(View(heap, fullBoard))
              /\ Extends(View(heap, fullBoard), argBoard)
    /\ Blocked(argBoard) => ~ret
    /\ ~ret => /\ ~Extends(ShiftGrid, argBoard)
               /\ \A seed \in Seeds : ~Extends(Solution(seed), argBoard)

\* C14 as claimed: for every input grid, when fillBoard returns true the
\* grid is full, holds each value once per row, column and box and agrees
\* with the input's non-zero cells, and it returns false for an input
\* without a completion (and only then).
C14_TrueIffCompleted ==
    pc = "filled" => FillResultRight

\* C14 amended: the same, for the input grids whose non-zero cells hold
\* values 1..9 with no value twice in a row, column or box.
C14_TrueIffCompletedFromConsistent ==
    (pc = "filled" /\ ConflictFree(argBoard)) => FillResultRight

\* fillBoard has returned true on a consistent grid that had clues and
\* empty cells.
C14_Witness ==
    /\ pc = "filled"
    /\ ret
    /\ ConflictFree(argBoard)
    /\ EmptyCells(argBoard) # {}
    /\ EmptyCells(argBoard) # Cells

\* The grid at the entry of the newest fillBoard call: the input with the
\* candidate each calling fillBoard has placed in its cell.  (A frame of the
\* stack does not change while the call it made runs.)
EntryGrid ==
    [r \in Idx |-> [c \in Idx |->
        IF \E i \in 1..Len(stack) : stack[i].row = r /\ stack[i].col = c
        THEN LET i == CHOOSE i \in 1..Len(stack) :
                          stack[i].row = r /\ stack[i].col = c
             IN  stack[i].numbers[stack[i].k]
        ELSE argBoard[r][c]]]

\* C20: a running fillBoard call never changes a cell that is non-zero in
\* the input; the grid a call (top-level or recursive) is entered with is
\* the input plus its callers' placements, and when a call returns false
\* the grid is that grid again.
C20_FalseRestores ==
    pc \in {"call", "loop", "ret", "filled"} =>
        /\ Extends(View(heap, fullBoard), argBoard)
        /\ pc = "call" => View(heap, fullBoard) = EntryGrid
        /\ (pc \in {"ret", "filled"} /\ ~ret) => View(heap, fullBoard) = EntryGrid

\* A recursive call has returned false on a grid with clues, two or more
\* calls above it.
C20_Witness ==
    /\ pc = "ret"
    /\ ~ret
    /\ Len(stack) >= 2
    /\ EmptyCells(argBoard) # Cells
    /\ ConflictFree(argBoard)

\* C15: isValid(G, r, c, v) equals isValid(transpose(G), c, r, v), for every
\* r and c in 0..8 and v in 1..9.
C15_TransposeSymmetric ==
    returned.fn = "isValid" =>
        \A row \in Idx, col \in Idx, num \in Digits :
            returned.value[row, col, num] = returned.transposed[col, row, num]

\* isValid was called on a grid that differs from its transpose, and it is
\* true for some arguments and false for others.
C15_Witness ==
    /\ returned.fn = "isValid"
    /\ Transpose(argBoard) # argBoard
    /\ \E row \in Idx, col \in Idx, num \in Digits : returned.value[row, col, num]
    /\ \E row \in Idx, col \in Idx, num \in Digits : ~returned.value[row, col, num]

\* C18: isValid and findDuplicates called with a row or a column outside
\* 0..8, and isValid called with a value outside 1..9, do not return.
C18_OutOfRangeFails ==
    returned.fn = "outOfRange" =>
        \A row \in WideIdx, col \in WideIdx :
            /\ (row \notin Idx \/ col \notin Idx) =>
                   returned.findDuplicates[row, col].kind # "return"
            /\ \A num \in WideNums :
                   (row \notin Idx \/ col \notin Idx \/ num \notin Digits) =>
                       returned.isValid[row, col, num].kind # "return"

\* C16: during and after a second removeNumbers call with the same clue
\* count on the puzzle the first call carved, the puzzle has at least that
\* many non-zero cells.
C16_SecondCallKeepsClues ==
    (returned.fn = "removeNumbers" /\ returned.calls = 2) =>
        Clues(View(heap, puzzle)) >= returned.clues

\* C17: an iteration of removeNumbers' loop that picks a non-zero cell sets
\* that cell to 0, changes no other cell and takes 1 from the counter; an
\* iteration that picks a zero cell changes neither the grid nor the
\* counter.  On return from a complete grid 81 - clues cells are 0 and the
\* others hold their value.
C17_CountsOnlyRemovals ==
    /\ [][(pc = "remove" /\ pc' = "remove") =>
             IF At(View(heap, puzzle), Picked) # 0
             THEN /\ attempts' = attempts - 1
                  /\ View(heap', puzzle') =
                         [View(heap, puzzle) EXCEPT ![Picked[1]][Picked[2]] = 0]
             ELSE /\ attempts' = attempts
                  /\ View(heap', puzzle') = View(heap, puzzle)]_vars
    /\ []((pc = "removed" /\ EmptyCells(argBoard) = {}) =>
             /\ Cardinality(EmptyCells(View(heap, puzzle))) = 81 - returned.clues
             /\ Extends(argBoard, View(heap, puzzle)))

\* The next iteration of the loop picks a cell that the loop has set to 0.
C17_Witness ==
    /\ pc = "remove"
    /\ attempts > 0
    /\ At(argBoard, Picked) # 0
    /\ At(View(heap, puzzle), Picked) = 0

\* C19: a removeNumbers call whose grid has at least as many non-zero cells
\* as removals are left returns (from a complete grid for each of the clue
\* counts 40, 32 and 24), and it returns with the counter at 0.
C19_RemoveTerminates ==
    /\ [][(pc = "remove" /\ pc' = "removed") => attempts = 0]_vars
    /\ (pc = "remove" /\ Clues(View(heap, puzzle)) >= attempts) ~> (pc = "removed")

\* removeNumbers has returned from a complete grid with 24 cells left.
C19_Witness ==
    /\ pc = "removed"
    /\ EmptyCells(argBoard) = {}
    /\ returned.clues = 24
    /\ Clues(View(heap, puzzle)) = 24

\* C21: a cell input or a Reveal Selected Cell whose resulting board equals
\* the solution board cell by cell leaves the win message non-empty in the
\* very state it produces.
C21_WinRightAfter ==
    [][(/\ View(heap', board') = View(heap', solutionBoard')
        /\ (InputChange \/ RevealSelected))
        => winMessage' # ""]_vars

\* A reveal completed a generated puzzle: the board equals the complete
\* solution, the message is shown and the reveal has cleared the selection.
C21_Witness ==
    /\ variant \in SelectVariants
    /\ EmptyCells(View(heap, solutionBoard)) = {}
    /\ View(heap, board) = View(heap, solutionBoard)
    /\ View(heap, board) # View(heap, originalBoard)
    /\ selectedCell = Null
    /\ winMessage # ""

\* C22: while the help mode is active, getTextColor(row, col) is red exactly
\* when the board's value at (row, col) is not 0 and differs from
\* solution[row][col]; duplicates on the board play no part and an empty
\* cell is never red.
C22_HelpRedIffWrong ==
    activeHelp =>
        \A cell \in Cells :
            (getTextColor(variant, activeHelp, View(heap, board),
                          View(heap, solutionBoard), cell[1], cell[2])
                 = "text-red-600")
            <=> (/\ At(View(heap, board), cell) # 0
                 /\ At(View(heap, board), cell) #
                        At(View(heap, solutionBoard), cell))

\* With the help mode on, an input holds its solution value, which another
\* cell of its row, column or box holds too, and is not red; an input is
\* still empty.
C22_Witness ==
    /\ activeHelp
    /\ \E cell \in Editable :
           /\ At(View(heap, board), cell) = At(View(heap, solutionBoard), cell)
           /\ findDuplicates(variant, View(heap, board), cell[1], cell[2])
           /\ getTextColor(variant, activeHelp, View(heap, board),
                           View(heap, solutionBoard), cell[1], cell[2])
                  = "text-blue-600"
    /\ \E cell \in Editable : At(View(heap, board), cell) = 0

\* C23: toggling the help mode, toggling show-solution and changing the
\* difficulty each leave the board, the original board, the solution board,
\* the win message and the selected cell as they were; after a step of
\* show-solution the displayed grid is the unchanged solution board when
\* showSolution is on and the unchanged board when it is off.
C23_TogglesKeepGame ==
    [][(ToggleHelp \/ ToggleShowSolution \/ SetDifficulty) =>
          /\ View(heap', board') = View(heap, board)
          /\ View(heap', originalBoard') = View(heap, originalBoard)
          /\ View(heap', solutionBoard') = View(heap, solutionBoard)
          /\ winMessage' = winMessage
          /\ selectedCell' = selectedCell
          /\ View(heap', displayedBoard') =
                 IF showSolution' THEN View(heap, solutionBoard)
                 ELSE View(heap, board)]_vars

\* All three controls have acted on a game in progress: the solution is
\* shown, help is on, the difficulty is not the initial one, a cell is
\* selected and the board holds a typed value.
C23_Witness ==
    /\ showSolution
    /\ activeHelp
    /\ difficulty # "easy"
    /\ selectedCell # Null
    /\ EmptyCells(View(heap, solutionBoard)) = {}
    /\ View(heap, board) # View(heap, originalBoard)
    /\ View(heap, displayedBoard) = View(heap, solutionBoard)

\* C24 as stated: while fillBoard runs on the all-zero grid, at most 81 of
\* its calls are active at once.
C24_AtMost81Calls == ActiveCalls <= 81

\* C24, amended: at most 82 calls are active at once, one per cell plus the
\* call that finds no empty cell, and never more.
C24_AtMost82Calls == ActiveCalls <= 82

\* Every cell holds the value its call placed and the call that finds the
\* grid full has been entered.
C24_Witness ==
    /\ pc = "call"
    /\ Len(stack) = 81
    /\ EmptyCells(View(heap, fullBoard)) = {}
    /\ ActiveCalls = 82

\* C25: on every page a non-empty win message implies that the solution
\* board has no zero cell; the player is never congratulated for matching
\* the all-zero solution board of the state before the first generation.
C25_WinOnlyOnGenerated ==
    winMessage # "" => EmptyCells(View(heap, solutionBoard)) = {}

\* C26: between two generations the original board never changes: a step
\* that changes a cell of the original board is a generateSudoku step, so no
\* cell input and no reveal modifies it, although the board shares row
\* arrays with it.
C26_OriginalKept ==
    [][View(heap', originalBoard') # View(heap, originalBoard) => Generate]_vars

\* After an edit the board differs from the original board of a generated
\* puzzle in one row and still shares another row array with it.
C26_Witness ==
    /\ \E cell \in Cells : At(View(heap, originalBoard), cell) # 0
    /\ \E r \in Idx : board[r] = originalBoard[r]
    /\ \E r \in Idx : /\ board[r] # originalBoard[r]
                       /\ heap[board[r]] # heap[originalBoard[r]]

\* C27: on every page, for a grid whose cell (row, col) is 0 and every value
\* v in 1..9, isValid(grid, row, col, v) is true exactly when findDuplicates
\* is false at (row, col) of the grid with v written there.
C27_CheckerAgreesWithAnalyzer ==
    returned.fn = "placement" =>
        \A row \in Idx, col \in Idx, num \in Digits :
            argBoard[row][col] = 0 =>
                (returned.isValid[row, col, num]
                     <=> ~returned.findDuplicates[row, col, num])

\* C28: the selected cell is null or a cell that is 0 in the current
\* original board; a selection made on one puzzle never points at a clue of
\* the next, because generateSudoku clears it.
C28_SelectionIsInput ==
    selectedCell # Null => At(View(heap, originalBoard), selectedCell) = 0

\* A cell of a generated puzzle is selected.
C28_Witness ==
    /\ selectedCell # Null
    /\ selectedCell \in Editable
    /\ \E cell \in Cells : At(View(heap, originalBoard), cell) # 0

\* C29: a Reveal Selected Cell step with selected cell (row, col) sets
\* board[row][col] to solution[row][col], leaves every other cell of the
\* board as it was and clears the selection; while no cell is selected no
\* Reveal Selected Cell step changes anything.
C29_RevealSetsOneCell ==
    /\ [][RevealSelected =>
             /\ View(heap', board') =
                    [View(heap, board) EXCEPT ![selectedCell[1]][selectedCell[2]] =
                        At(View(heap, solutionBoard), selectedCell)]
             /\ selectedCell' = Null]_vars
    /\ [](selectedCell = Null => ~ENABLED <<RevealSelected>>_vars)

\* A reveal has acted on a generated puzzle: the board holds the solution's
\* value in a cell that the original board left empty, another input is
\* still empty and no cell is selected.
C29_Witness ==
    /\ variant \in SelectVariants
    /\ selectedCell = Null
    /\ winMessage = ""
    /\ EmptyCells(View(heap, solutionBoard)) = {}
    /\ \E cell \in Editable :
           At(View(heap, board), cell) = At(View(heap, solutionBoard), cell)
    /\ \E cell \in Editable : At(View(heap, board), cell) = 0

\* C30: once the player, in any state after a New Game, sets out to select
\* and reveal the inputs, the board eventually equals the solution board
\* and the win message is shown, whatever was typed before and whatever the
\* difficulty.
C30_RevealAllWins ==
    (returned.fn = "revealAll")
        ~> (/\ View(heap, board) = View(heap, solutionBoard)
            /\ winMessage # "")

\* The player set out to reveal the inputs of a generated puzzle at a
\* difficulty other than the initial one, and has won.
C30_Witness ==
    /\ returned.fn = "revealAll"
    /\ difficulty # "easy"
    /\ \E cell \in Cells : At(View(heap, originalBoard), cell) # 0
    /\ View(heap, board) = View(heap, solutionBoard)
    /\ winMessage # ""

====
